---- MODULE Spec2Model ----
(***************************************************************************)
(* The aggregation-and-flush engine of statsdaemon: the shared metric      *)
(* store (counters, gauges, timers, sets, countInactivity) and the two     *)
(* backends' submit (graphite.go, openfalcon.go).                          *)
(*                                                                         *)
(* Metric names are sequences of one-character strings, so that the name   *)
(* arithmetic of the code (postfix stripping, the split at the last "/")   *)
(* is computed, not assumed.  Metric values are integers in the store      *)
(* (README: "Only integers are supported for metric values") and           *)
(* rationals [n, d] in lowest terms once emitted, because the timer mean   *)
(* is a quotient.                                                          *)
(*                                                                         *)
(* One call of submit is a sequence of steps: pc is the position of the    *)
(* call, todo the keys a range loop has still to visit, cur the bucket a   *)
(* loop body has read and not yet deleted.                                 *)
(***************************************************************************)
EXTENDS Bags, FiniteSets, Integers, Sequences, TLC

(* ------------------------------ bounds --------------------------------- *)

\* ingestion writes accepted between two drains of the store
MaxWrites == 2
\* largest value of -persist-count-keys tried
MaxPersist == 2
\* largest gauge value reached by relative writes
MaxGauge == 2
\* flushes since a gauge's last write that the history counts
HistCap == 2

\* samples of the timer bucket a preloaded store starts with
MaxSamples == 5
\* members of the set bucket a preloaded store starts with
MaxMembers == 3

(* --------------------------- configuration ----------------------------- *)

\* -flush-interval, the Step of every open-falcon message
flushInterval == 10

\* -postfix
postfix == <<"_", "p">>

None == "none"

CounterKeys == { <<"a", "/", "x", "_", "p">>, <<"b", "_", "p">> }
GaugeKeys == { <<"g", "_", "p">> }
TimerKeys == { <<"t", "_", "p">> }
SetKeys == { <<"s", "_", "p">> }

CounterDeltas == {1, 2}
GaugeValues == {1}
GaugeDeltas == {1}
TimerSamples == {3, 6}
SetMembers == {"m", "n"}
Times == {1, 2}

\* a percentile spec of -percent-threshold: float is the signed magnitude,
\* str the text it was given as
Pct(f, s) == [float |-> f, str |-> s]
upper50 == Pct(50, <<"5", "0">>)
lower50 == Pct(-50, <<"-", "5", "0">>)
upper10 == Pct(10, <<"1", "0">>)
lower25 == Pct(-25, <<"-", "2", "5">>)
upper90 == Pct(90, <<"9", "0">>)
lower90 == Pct(-90, <<"-", "9", "0">>)
upper100 == Pct(100, <<"1", "0", "0">>)
lower100 == Pct(-100, <<"-", "1", "0", "0">>)

(* ------------------------------- state --------------------------------- *)

VARIABLES
    backend,            \* "graphite" | "openfalcon": which backend submit runs
    debug,              \* *debug
    deleteGauges,       \* *deleteGauges
    persistCountKeys,   \* *persistCountKeys
    percentThreshold,   \* percentThreshold, a sequence of percentile specs
    counters,           \* map bucket -> value
    countInactivity,    \* map bucket -> flushes without data
    gauges,             \* map bucket -> value
    timers,             \* map bucket -> sequence of samples
    sets,               \* map bucket -> sequence of members
    packets,            \* openFalconBackend.packets
    pc,                 \* position of the submit call, "idle" outside it
    now,                \* submit's local now
    buffer,             \* graphite submit's local buffer (a sequence of lines)
    num,                \* graphite submit's local num
    client,             \* graphite submit's connection: "none" | "conn"
    err,                \* the value submit returns: "none" until it returns
    todo,               \* keys the running range loop has still to visit
    cur,                \* the bucket a loop body holds: <<>> or <<[bucket, value]>>
    io,                 \* network operations the running call has performed
    writes,             \* ingestion writes since the last drain of the store began
    pre,                \* <<the store as the running call found it>>, <<>> outside a call
    hInc,               \* per counter key, increments ingested and not yet read by a flush
    hSmp,               \* per timer key, samples ingested and not yet read by a flush
    hMem,               \* per set key, members ingested and not yet read by a flush
    hSince,             \* per counter key, counter flushes since its last live flush
    hGauge              \* per gauge key, <<its last written value, the gauge flushes since>>

config == <<backend, debug, deleteGauges, persistCountKeys, percentThreshold>>
store == <<counters, countInactivity, gauges, timers, sets>>
frame == <<pc, now, buffer, num, client, err, todo, cur, io, pre>>
hist == <<hInc, hSmp, hMem, hSince, hGauge>>
vars == <<config, store, packets, frame, writes, hist>>

(* ------------------------------ helpers -------------------------------- *)

EmptyMap == [k \in {} |-> 0]

\* m[k] = v, inserting k if absent
Put(m, k, v) == [x \in (DOMAIN m) \cup {k} |-> IF x = k THEN v ELSE m[x]]

\* delete(m, k)
Delete(m, k) == [x \in (DOMAIN m) \ {k} |-> m[x]]

\* m[k] of a Go map: the zero value when k is absent
Get(m, k) == IF k \in DOMAIN m THEN m[k] ELSE 0

RECURSIVE GCD(_, _)
GCD(a, b) == IF b = 0 THEN a ELSE GCD(b, a % b)

Abs(x) == IF x < 0 THEN -x ELSE x

\* the float64 n/d, kept as the fraction in lowest terms
Rat(n, d) ==
    LET g == GCD(Abs(n), d)
    IN  IF n = 0 THEN [n |-> 0, d |-> 1] ELSE [n |-> n \div g, d |-> d \div g]

RECURSIVE SumSeq(_)
SumSeq(s) == IF s = <<>> THEN 0 ELSE Head(s) + SumSeq(Tail(s))

Range(s) == { s[i] : i \in DOMAIN s }

Min2(a, b) == IF a < b THEN a ELSE b

(* ------------------------------- names --------------------------------- *)

dotUpperPct == <<".", "u", "p", "p", "e", "r", "_">>
dotLowerPct == <<".", "l", "o", "w", "e", "r", "_">>
dotMean == <<".", "m", "e", "a", "n">>
dotUpper == <<".", "u", "p", "p", "e", "r">>
dotLower == <<".", "l", "o", "w", "e", "r">>
dotCount == <<".", "c", "o", "u", "n", "t">>

\* strings.LastIndex(s, c), 0-based, -1 when c does not occur
LastIndex(s, c) ==
    LET at == { i \in DOMAIN s : s[i] = c }
    IN  IF at = {} THEN -1 ELSE (CHOOSE i \in at : \A j \in at : j <= i) - 1

\* strings.Index(s, c), 0-based, -1 when c does not occur
Index(s, c) ==
    LET at == { i \in DOMAIN s : s[i] = c }
    IN  IF at = {} THEN -1 ELSE (CHOOSE i \in at : \A j \in at : i <= j) - 1

\* parseMetric with strings.Index in place of strings.LastIndex
parseMetricFirst(metric) ==
    LET index == Index(metric, "/")
    IN  IF index >= 0
        THEN <<SubSeq(metric, 1, index), SubSeq(metric, index + 2, Len(metric))>>
        ELSE <<metric, <<>>>>

\* openFalconBackend.parseMetric: <<name, tags>>
parseMetric(metric) ==
    LET index == LastIndex(metric, "/")
    IN  IF index >= 0
        THEN <<SubSeq(metric, 1, index), SubSeq(metric, index + 2, Len(metric))>>
        ELSE <<metric, <<>>>>

\* openFalconBackend.appendPacket: bd.packets with one more message
appendPacket(pk, metric, value, t) ==
    Append(pk, [Metric      |-> parseMetric(metric)[1],
                Endpoint    |-> "statsd",
                Tags        |-> parseMetric(metric)[2],
                Value       |-> value,
                Timestamp   |-> t,
                CounterType |-> "GAUGE",
                Step        |-> flushInterval])

\* strconv.FormatFloat(v, 'f', -1, 64) and the %d verb: the decimal text of a
\* number, carried as the number it spells (the shortest decimal that reads
\* back as the same float64; "0" and "%d" of an int spell the same integer)
FormatFloat(v) == [dec |-> v]

\* one "%s %s %d\n" line of the graphite buffer
Line(name, text, t) == [name |-> name, value |-> text, ts |-> t]

(* ------------------------------- timers -------------------------------- *)

RECURSIVE Insert(_, _)
Insert(x, s) ==
    IF s = <<>> THEN <<x>>
    ELSE IF x <= Head(s) THEN <<x>> \o s
    ELSE <<Head(s)>> \o Insert(x, Tail(s))

\* sort.Sort(timer): ascending
RECURSIVE Sort(_)
Sort(s) == IF s = <<>> THEN <<>> ELSE Insert(Head(s), Sort(Tail(s)))

\* abs of a percentile spec
PctAbs(pct) == IF pct.float >= 0 THEN pct.float ELSE 100 + pct.float

\* indexOfPerc without the offset of an upper-tail spec
indexOfPercNoOffset(pct, count) == (PctAbs(pct) * count + 50) \div 100

\* indexOfPerc (0-based): int(math.Floor(abs/100.0*count + 0.5)), less one for
\* an upper-tail spec.  For integer magnitudes the float expression equals the
\* integer quotient (abs*count + 50) \div 100.
indexOfPerc(pct, count) ==
    LET rounded == (PctAbs(pct) * count + 50) \div 100
    IN  IF pct.float >= 0 THEN rounded - 1 ELSE rounded

\* timer[indexOfPerc] is inside the slice (outside it the Go runtime panics)
InRange(index, count) == 0 <= index /\ index < count

\* maxAtThreshold after the spec pctls[i] of one bucket has been handled; the
\* variable is declared outside the loop over the specs
maxAtThreshold(timer, pctls, i) ==
    IF Len(timer) > 1
    THEN timer[indexOfPerc(pctls[i], Len(timer)) + 1]
    ELSE timer[Len(timer)]

\* timerPanics without the test len(timer) > 1
timerPanicsAnyCount(timer, pctls) ==
    \E i \in DOMAIN pctls : ~InRange(indexOfPerc(pctls[i], Len(timer)), Len(timer))

\* some spec indexes outside the sorted samples
timerPanics(timer, pctls) ==
    /\ Len(timer) > 1
    /\ \E i \in DOMAIN pctls : ~InRange(indexOfPerc(pctls[i], Len(timer)), Len(timer))

\* name of the record of one percentile spec
pctName(stem, pct) ==
    IF pct.float >= 0
    THEN stem \o dotUpperPct \o pct.str \o postfix
    ELSE stem \o dotLowerPct \o Tail(pct.str) \o postfix

\* timerRecords without the sort.Sort(timer)
timerRecordsUnsorted(bucket, timer, pctls) ==
    LET stem == SubSeq(bucket, 1, Len(bucket) - Len(postfix))
        count == Len(timer)
        mean == Rat(SumSeq(timer), count)
    IN  [i \in DOMAIN pctls |->
            <<pctName(stem, pctls[i]), Rat(maxAtThreshold(timer, pctls, i), 1)>>]
        \o << <<stem \o dotMean \o postfix, mean>>,
              <<stem \o dotUpper \o postfix, Rat(timer[count], 1)>>,
              <<stem \o dotLower \o postfix, Rat(timer[1], 1)>>,
              <<stem \o dotCount \o postfix, Rat(count, 1)>> >>

\* the records of one timer bucket, in the order the loop body writes them:
\* a sequence of <<name, value>>; timer is the bucket as read (unsorted)
timerRecords(bucket, timer, pctls) ==
    LET sorted == Sort(timer)
        stem == SubSeq(bucket, 1, Len(bucket) - Len(postfix))
        count == Len(sorted)
        mean == Rat(SumSeq(sorted), count)
    IN  [i \in DOMAIN pctls |->
            <<pctName(stem, pctls[i]), Rat(maxAtThreshold(sorted, pctls, i), 1)>>]
        \o << <<stem \o dotMean \o postfix, mean>>,
              <<stem \o dotUpper \o postfix, Rat(sorted[count], 1)>>,
              <<stem \o dotLower \o postfix, Rat(sorted[1], 1)>>,
              <<stem \o dotCount \o postfix, Rat(count, 1)>> >>

\* processTimers' Fprintf calls for one bucket
timerLines(buf, bucket, timer, pctls, t) ==
    LET recs == timerRecords(bucket, timer, pctls)
    IN  buf \o [i \in DOMAIN recs |-> Line(recs[i][1], FormatFloat(recs[i][2]), t)]

RECURSIVE appendPackets(_, _, _)
appendPackets(pk, recs, t) ==
    IF recs = <<>> THEN pk
    ELSE appendPackets(appendPacket(pk, Head(recs)[1], Head(recs)[2], t), Tail(recs), t)

\* openFalconBackend.processTimers' appendPacket calls for one bucket
timerPackets(pk, bucket, timer, pctls, t) ==
    appendPackets(pk, timerRecords(bucket, timer, pctls), t)

\* uniqueCount without the deduplication
uniqueCountLen(set) == Len(set)

\* len(uniqueSet)
uniqueCount(set) == Cardinality(Range(set))

(* -------------------------------- Init --------------------------------- *)

NoFrame ==
    /\ pc = "idle" /\ now = 0 /\ buffer = <<>> /\ num = 0 /\ client = None
    /\ err = None /\ todo = {} /\ cur = <<>> /\ io = {} /\ pre = <<>>

EmptyStore ==
    /\ counters = EmptyMap /\ countInactivity = EmptyMap /\ gauges = EmptyMap
    /\ timers = EmptyMap /\ sets = EmptyMap

\* hSince of a key whose last live flush is persistCountKeys flushes ago or
\* more, or that never had one
Far == persistCountKeys

NoHistory ==
    /\ hInc = [k \in CounterKeys |-> <<>>]
    /\ hSmp = [k \in TimerKeys |-> <<>>]
    /\ hMem = [k \in SetKeys |-> <<>>]
    /\ hSince = [k \in CounterKeys |-> Far]
    /\ hGauge = [k \in GaugeKeys |-> <<>>]

\* the daemon after startup: flags parsed, the maps made and empty
Init ==
    /\ backend \in {"graphite", "openfalcon"}
    /\ debug \in BOOLEAN
    /\ deleteGauges \in BOOLEAN
    /\ persistCountKeys \in 0..MaxPersist
    /\ percentThreshold \in {<<upper50, lower50>>, <<upper10>>}
    /\ EmptyStore
    /\ packets = <<>>
    /\ NoFrame
    /\ writes = 0
    /\ NoHistory

(* ------------------------------ ingestion ------------------------------ *)

\* StoreFree without the single owner: a write may happen at any moment
StoreAlwaysFree == TRUE

\* The store has one owner at a time: the loop that handles a parsed packet
\* and the loop that calls submit are the same loop, so a write happens only
\* while no submit call is running.
StoreFree == pc = "idle"

CanWrite == StoreFree /\ writes < MaxWrites /\ pc # "crashed"

\* a counter sample: counters[k] += d
IngestCounter(k, d) ==
    /\ CanWrite
    /\ counters' = Put(counters, k, Get(counters, k) + d)
    /\ hInc' = [hInc EXCEPT ![k] = Append(@, d)]
    /\ writes' = writes + 1
    /\ UNCHANGED <<config, countInactivity, gauges, timers, sets, packets, frame,
                   hSmp, hMem, hSince, hGauge>>

\* an absolute gauge sample: gauges[k] = v
IngestGauge(k, v) ==
    /\ CanWrite
    /\ gauges' = Put(gauges, k, v)
    /\ hGauge' = [hGauge EXCEPT ![k] = <<[val |-> v, since |-> 0]>>]
    /\ writes' = writes + 1
    /\ UNCHANGED <<config, counters, countInactivity, timers, sets, packets, frame,
                   hInc, hSmp, hMem, hSince>>

\* a relative gauge sample: gauges[k] += d
IngestGaugeDelta(k, d) ==
    /\ CanWrite
    /\ Get(gauges, k) + d <= MaxGauge
    /\ gauges' = Put(gauges, k, Get(gauges, k) + d)
    /\ hGauge' = [hGauge EXCEPT
                    ![k] = <<[val |-> Get(gauges, k) + d, since |-> 0]>>]
    /\ writes' = writes + 1
    /\ UNCHANGED <<config, counters, countInactivity, timers, sets, packets, frame,
                   hInc, hSmp, hMem, hSince>>

\* a timer sample: timers[k] = append(timers[k], v)
IngestTimer(k, v) ==
    /\ CanWrite
    /\ timers' = Put(timers, k, Append(IF k \in DOMAIN timers THEN timers[k] ELSE <<>>, v))
    /\ hSmp' = [hSmp EXCEPT ![k] = Append(@, v)]
    /\ writes' = writes + 1
    /\ UNCHANGED <<config, counters, countInactivity, gauges, sets, packets, frame,
                   hInc, hMem, hSince, hGauge>>

\* a set sample: sets[k] = append(sets[k], m)
IngestSet(k, m) ==
    /\ CanWrite
    /\ sets' = Put(sets, k, Append(IF k \in DOMAIN sets THEN sets[k] ELSE <<>>, m))
    /\ hMem' = [hMem EXCEPT ![k] = Append(@, m)]
    /\ writes' = writes + 1
    /\ UNCHANGED <<config, counters, countInactivity, gauges, timers, packets, frame,
                   hInc, hSmp, hSince, hGauge>>

(* ------------------------- history bookkeeping ------------------------- *)

\* the store and its history as a submit call finds them
Snapshot ==
    [counters |-> counters, countInactivity |-> countInactivity, gauges |-> gauges,
     timers |-> timers, sets |-> sets, hInc |-> hInc, hSmp |-> hSmp, hMem |-> hMem,
     hSince |-> hSince, hGauge |-> hGauge]

\* a counter flush has completed: one more flush since each key's live flush
\* (-1 marks a key flushed live by this very flush)
SinceAfterFlush == [k \in CounterKeys |-> Min2(hSince[k] + 1, Far)]

\* a gauge flush has completed: one more flush since each gauge's last write
GaugeAfterFlush ==
    [k \in GaugeKeys |->
        IF hGauge[k] = <<>> THEN <<>>
        ELSE <<[hGauge[k][1] EXCEPT !.since = Min2(@ + 1, HistCap)]>>]

(* --------------------- pieces of the process functions ------------------ *)

\* countersLine with the zero-fill format "%s 0 %d\n" in place of the value
countersLineZero(buf, bucket, value, t) ==
    Append(buf, Line(bucket, FormatFloat(Rat(0, 1)), t))

\* processCounters: the line of a live counter
countersLine(buf, bucket, value, t) ==
    Append(buf, Line(bucket, FormatFloat(Rat(value, 1)), t))

\* zeroLine without the test purgeCount > 0
zeroLineAlways(buf, bucket, purgeCount, t) ==
    Append(buf, Line(bucket, FormatFloat(Rat(0, 1)), t))

\* processCounters: the "%s 0 %d\n" line of an inactive counter, written when
\* purgeCount > 0
zeroLine(buf, bucket, purgeCount, t) ==
    IF purgeCount > 0 THEN Append(buf, Line(bucket, FormatFloat(Rat(0, 1)), t)) ELSE buf

\* purge with >= in place of >
purgeAtThreshold(ci, bucket, threshold) ==
    IF ci[bucket] + 1 >= threshold THEN Delete(ci, bucket) ELSE Put(ci, bucket, ci[bucket] + 1)

\* purge with the count compared before the increment
purgeLate(ci, bucket, threshold) ==
    IF ci[bucket] > threshold THEN Delete(ci, bucket) ELSE Put(ci, bucket, ci[bucket] + 1)

\* processCounters: countInactivity[bucket] += 1, deleted once above the threshold
purge(ci, bucket, threshold) ==
    IF ci[bucket] + 1 > threshold THEN Delete(ci, bucket) ELSE Put(ci, bucket, ci[bucket] + 1)

\* gaugesAfter without the delete
gaugesAfterKeep(g, bucket, del) == g

\* gaugesAfter without the test of *deleteGauges
gaugesAfterAlways(g, bucket, del) == Delete(g, bucket)

\* processGauges: the gauges map after one bucket
gaugesAfter(g, bucket, del) == IF del THEN Delete(g, bucket) ELSE g

\* g_afterDialFail without the test of *debug: the drain always runs
g_afterDialFailAlwaysDrain(dbg) == "g_counters"

\* g_afterDialFail without the debug branch: the drain never runs
g_afterDialFailNeverDrain(dbg) == "returning"

\* graphiteBackend.submit after a failed net.Dial: in debug mode the four
\* process functions run before the error is returned
g_afterDialFail(dbg) == IF dbg THEN "g_counters" ELSE "returning"

\* packetsAfterReturn without the deferred function
packetsKept(pk) == pk

\* openFalconBackend.submit's deferred function: bd.packets = nil
packetsAfterReturn(pk) == <<>>

\* g_afterDrain without the test num == 0
g_afterDrainAlwaysWrite(c, n) == IF c = "conn" THEN "g_write" ELSE "returning"

\* graphiteBackend.submit after the four process functions: where it goes on
g_afterDrain(c, n) == IF c = "conn" /\ n # 0 THEN "g_write" ELSE "returning"

\* graphiteBackend.submit after the four process functions: what it returns, if
\* it returns there
g_errAfterDrain(c, n) == IF c # "conn" THEN "dial" ELSE IF n = 0 THEN "nil" ELSE None

\* bd.processCounters: the packet of an inactive counter, appended when
\* purgeCount > 0
zeroPacket(pk, bucket, purgeCount, t) ==
    IF purgeCount > 0 THEN appendPacket(pk, bucket, Rat(0, 1), t) ELSE pk

\* bd_purge without the delete
bd_purgeNever(ci, bucket, threshold) == Put(ci, bucket, ci[bucket] + 1)

\* bd.processCounters: countInactivity[bucket]++, deleted once above the threshold
bd_purge(ci, bucket, threshold) ==
    IF ci[bucket] + 1 > threshold THEN Delete(ci, bucket) ELSE Put(ci, bucket, ci[bucket] + 1)

\* bd.processGauges: the gauges map after one bucket
bd_gaugesAfter(g, bucket, del) == IF del THEN Delete(g, bucket) ELSE g

\* openFalconBackend.submit after the four process methods: where it goes on
f_afterDrain(n) == IF n = 0 THEN "returning" ELSE "f_marshal"

(* ------------------------- graphiteBackend.submit ---------------------- *)

\* graphiteBackend.submit is called: its locals, now = time.Now().Unix()
G_Submit(t) ==
    /\ backend = "graphite"
    /\ pc = "idle"
    /\ pc' = "g_dial"
    /\ now' = t
    /\ buffer' = <<>>
    /\ num' = 0
    /\ client' = None
    /\ err' = None
    /\ todo' = {}
    /\ cur' = <<>>
    /\ io' = {}
    /\ pre' = <<Snapshot>>
    /\ UNCHANGED <<backend, debug, deleteGauges, persistCountKeys, percentThreshold,
                   counters, countInactivity, gauges, timers, sets, packets, writes,
                   hInc, hSmp, hMem, hSince, hGauge>>

\* net.Dial returns a connection
G_DialOk ==
    /\ pc = "g_dial"
    /\ pc' = "g_deadline"
    /\ client' = "conn"
    /\ io' = io \cup {"dial"}
    /\ UNCHANGED <<backend, debug, deleteGauges, persistCountKeys, percentThreshold,
                   counters, countInactivity, gauges, timers, sets, packets, now, buffer,
                   num, err, todo, cur, pre, writes, hInc, hSmp, hMem, hSince, hGauge>>

\* net.Dial fails: in debug mode the four process functions still run on the
\* local buffer, then the error is returned
G_DialFail ==
    /\ pc = "g_dial"
    /\ pc' = g_afterDialFail(debug)
    /\ err' = IF debug THEN None ELSE "dial"
    /\ todo' = IF debug THEN DOMAIN counters ELSE {}
    /\ io' = io \cup {"dial"}
    /\ writes' = IF debug THEN 0 ELSE writes
    /\ UNCHANGED <<backend, debug, deleteGauges, persistCountKeys, percentThreshold,
                   counters, countInactivity, gauges, timers, sets, packets, now, buffer,
                   num, client, cur, pre, hInc, hSmp, hMem, hSince, hGauge>>

\* client.SetDeadline(deadline) succeeds; processCounters starts
G_SetDeadlineOk ==
    /\ pc = "g_deadline"
    /\ pc' = "g_counters"
    /\ todo' = DOMAIN counters
    /\ io' = io \cup {"setdeadline"}
    /\ writes' = 0
    /\ UNCHANGED <<backend, debug, deleteGauges, persistCountKeys, percentThreshold,
                   counters, countInactivity, gauges, timers, sets, packets, now, buffer,
                   num, client, err, cur, pre, hInc, hSmp, hMem, hSince, hGauge>>

\* client.SetDeadline(deadline) fails: return err
G_SetDeadlineFail ==
    /\ pc = "g_deadline"
    /\ pc' = "returning"
    /\ err' = "deadline"
    /\ todo' = {}
    /\ io' = io \cup {"setdeadline"}
    /\ UNCHANGED <<backend, debug, deleteGauges, persistCountKeys, percentThreshold,
                   counters, countInactivity, gauges, timers, sets, packets, now, buffer,
                   num, client, cur, pre, writes, hInc, hSmp, hMem, hSince, hGauge>>

\* processCounters, first loop: range yields (bucket, value), Fprintf
G_CountersRead(k) ==
    /\ pc = "g_counters"
    /\ cur = <<>>
    /\ k \in todo
    /\ buffer' = countersLine(buffer, k, counters[k], now)
    /\ cur' = <<[bucket |-> k, value |-> counters[k]]>>
    /\ hInc' = [hInc EXCEPT ![k] = <<>>]
    /\ UNCHANGED <<backend, debug, deleteGauges, persistCountKeys, percentThreshold,
                   counters, countInactivity, gauges, timers, sets, packets, pc, now,
                   num, client, err, todo, io, pre, writes, hSmp, hMem, hSince, hGauge>>

\* processCounters, first loop: delete, countInactivity[bucket] = 0, num++
G_CountersDelete ==
    /\ pc = "g_counters"
    /\ cur # <<>>
    /\ counters' = Delete(counters, cur[1].bucket)
    /\ countInactivity' = Put(countInactivity, cur[1].bucket, 0)
    /\ num' = IF client = "conn" THEN num + 1 ELSE num
    /\ todo' = todo \ {cur[1].bucket}
    /\ cur' = <<>>
    /\ hSince' = [hSince EXCEPT ![cur[1].bucket] = -1]
    /\ UNCHANGED <<backend, debug, deleteGauges, persistCountKeys, percentThreshold,
                   gauges, timers, sets, packets, pc, now, buffer, client, err, io, pre,
                   writes, hInc, hSmp, hMem, hGauge>>

\* processCounters: the first loop ends, the second starts
G_CountersExit ==
    /\ pc = "g_counters"
    /\ cur = <<>>
    /\ todo = {}
    /\ pc' = "g_inactivity"
    /\ todo' = DOMAIN countInactivity
    /\ UNCHANGED <<backend, debug, deleteGauges, persistCountKeys, percentThreshold,
                   counters, countInactivity, gauges, timers, sets, packets, now, buffer,
                   num, client, err, cur, io, pre, writes, hInc, hSmp, hMem, hSince,
                   hGauge>>

\* processCounters, second loop, one key: zero-fill, count, purge
G_Inactivity(k) ==
    /\ pc = "g_inactivity"
    /\ k \in todo
    /\ countInactivity' = purge(countInactivity, k, persistCountKeys)
    /\ buffer' = zeroLine(buffer, k, countInactivity[k], now)
    /\ num' = IF countInactivity[k] > 0 /\ client = "conn" THEN num + 1 ELSE num
    /\ todo' = todo \ {k}
    /\ UNCHANGED <<backend, debug, deleteGauges, persistCountKeys, percentThreshold,
                   counters, gauges, timers, sets, packets, pc, now, client, err, cur,
                   io, pre, writes, hInc, hSmp, hMem, hSince, hGauge>>

\* processCounters returns; processGauges starts
G_InactivityExit ==
    /\ pc = "g_inactivity"
    /\ todo = {}
    /\ pc' = "g_gauges"
    /\ todo' = DOMAIN gauges
    /\ hSince' = SinceAfterFlush
    /\ UNCHANGED <<backend, debug, deleteGauges, persistCountKeys, percentThreshold,
                   counters, countInactivity, gauges, timers, sets, packets, now, buffer,
                   num, client, err, cur, io, pre, writes, hInc, hSmp, hMem, hGauge>>

\* processGauges, one key: Fprintf, num++, delete if *deleteGauges
G_Gauges(k) ==
    /\ pc = "g_gauges"
    /\ k \in todo
    /\ gauges' = gaugesAfter(gauges, k, deleteGauges)
    /\ buffer' = Append(buffer, Line(k, FormatFloat(Rat(gauges[k], 1)), now))
    /\ num' = IF client = "conn" THEN num + 1 ELSE num
    /\ todo' = todo \ {k}
    /\ UNCHANGED <<backend, debug, deleteGauges, persistCountKeys, percentThreshold,
                   counters, countInactivity, timers, sets, packets, pc, now, client,
                   err, cur, io, pre, writes, hInc, hSmp, hMem, hSince, hGauge>>

\* processGauges returns; processTimers starts
G_GaugesExit ==
    /\ pc = "g_gauges"
    /\ todo = {}
    /\ pc' = "g_timers"
    /\ todo' = DOMAIN timers
    /\ hGauge' = GaugeAfterFlush
    /\ UNCHANGED <<backend, debug, deleteGauges, persistCountKeys, percentThreshold,
                   counters, countInactivity, gauges, timers, sets, packets, now, buffer,
                   num, client, err, cur, io, pre, writes, hInc, hSmp, hMem, hSince>>

\* processTimers: range yields (bucket, timer)
G_TimersRead(k) ==
    /\ pc = "g_timers"
    /\ cur = <<>>
    /\ k \in todo
    /\ cur' = <<[bucket |-> k, value |-> timers[k]]>>
    /\ hSmp' = [hSmp EXCEPT ![k] = <<>>]
    /\ UNCHANGED <<backend, debug, deleteGauges, persistCountKeys, percentThreshold,
                   counters, countInactivity, gauges, timers, sets, packets, pc, now,
                   buffer, num, client, err, todo, io, pre, writes, hInc, hMem, hSince,
                   hGauge>>

\* processTimers, loop body: sort, summarise, Fprintf, delete
G_TimersEmit ==
    /\ pc = "g_timers"
    /\ cur # <<>>
    /\ ~timerPanics(cur[1].value, percentThreshold)
    /\ timers' = Delete(timers, cur[1].bucket)
    /\ buffer' = timerLines(buffer, cur[1].bucket, cur[1].value, percentThreshold, now)
    /\ num' = IF client = "conn" THEN num + 1 ELSE num
    /\ todo' = todo \ {cur[1].bucket}
    /\ cur' = <<>>
    /\ UNCHANGED <<backend, debug, deleteGauges, persistCountKeys, percentThreshold,
                   counters, countInactivity, gauges, sets, packets, pc, now, client,
                   err, io, pre, writes, hInc, hSmp, hMem, hSince, hGauge>>

\* processTimers, loop body: timer[indexOfPerc] with the index outside the
\* samples is a run-time panic: the deferred client.Close() runs and the
\* process ends
G_TimersPanic ==
    /\ pc = "g_timers"
    /\ cur # <<>>
    /\ timerPanics(cur[1].value, percentThreshold)
    /\ pc' = "crashed"
    /\ now' = 0
    /\ buffer' = <<>>
    /\ num' = 0
    /\ client' = None
    /\ err' = None
    /\ todo' = {}
    /\ cur' = <<>>
    /\ io' = {}
    /\ pre' = <<>>
    /\ UNCHANGED <<backend, debug, deleteGauges, persistCountKeys, percentThreshold,
                   counters, countInactivity, gauges, timers, sets, packets, writes,
                   hInc, hSmp, hMem, hSince, hGauge>>

\* processTimers returns; processSets starts: num := len(sets)
G_TimersExit ==
    /\ pc = "g_timers"
    /\ cur = <<>>
    /\ todo = {}
    /\ pc' = "g_sets"
    /\ num' = IF client = "conn" THEN num + Cardinality(DOMAIN sets) ELSE num
    /\ todo' = DOMAIN sets
    /\ UNCHANGED <<backend, debug, deleteGauges, persistCountKeys, percentThreshold,
                   counters, countInactivity, gauges, timers, sets, packets, now, buffer,
                   client, err, cur, io, pre, writes, hInc, hSmp, hMem, hSince, hGauge>>

\* processSets: range yields (bucket, set)
G_SetsRead(k) ==
    /\ pc = "g_sets"
    /\ cur = <<>>
    /\ k \in todo
    /\ cur' = <<[bucket |-> k, value |-> sets[k]]>>
    /\ hMem' = [hMem EXCEPT ![k] = <<>>]
    /\ UNCHANGED <<backend, debug, deleteGauges, persistCountKeys, percentThreshold,
                   counters, countInactivity, gauges, timers, sets, packets, pc, now,
                   buffer, num, client, err, todo, io, pre, writes, hInc, hSmp, hSince,
                   hGauge>>

\* processSets, loop body: uniqueSet, Fprintf, delete
G_SetsEmit ==
    /\ pc = "g_sets"
    /\ cur # <<>>
    /\ sets' = Delete(sets, cur[1].bucket)
    /\ buffer' = Append(buffer, Line(cur[1].bucket, FormatFloat(Rat(uniqueCount(cur[1].value), 1)), now))
    /\ todo' = todo \ {cur[1].bucket}
    /\ cur' = <<>>
    /\ UNCHANGED <<backend, debug, deleteGauges, persistCountKeys, percentThreshold,
                   counters, countInactivity, gauges, timers, packets, pc, now, num,
                   client, err, io, pre, writes, hInc, hSmp, hMem, hSince, hGauge>>

\* processSets returns: after a failed dial return the error; with num == 0
\* return nil; else go on to client.Write
G_SetsExit ==
    /\ pc = "g_sets"
    /\ cur = <<>>
    /\ todo = {}
    /\ pc' = g_afterDrain(client, num)
    /\ err' = g_errAfterDrain(client, num)
    /\ UNCHANGED <<backend, debug, deleteGauges, persistCountKeys, percentThreshold,
                   counters, countInactivity, gauges, timers, sets, packets, now, buffer,
                   num, client, todo, cur, io, pre, writes, hInc, hSmp, hMem, hSince,
                   hGauge>>

\* client.Write writes the buffer: return nil
G_WriteOk ==
    /\ pc = "g_write"
    /\ pc' = "returning"
    /\ err' = "nil"
    /\ io' = io \cup {"write"}
    /\ UNCHANGED <<backend, debug, deleteGauges, persistCountKeys, percentThreshold,
                   counters, countInactivity, gauges, timers, sets, packets, now, buffer,
                   num, client, todo, cur, pre, writes, hInc, hSmp, hMem, hSince, hGauge>>

\* client.Write fails (the peer closed or reset the connection)
G_WriteFail ==
    /\ pc = "g_write"
    /\ pc' = "returning"
    /\ err' = "write"
    /\ io' = io \cup {"write"}
    /\ UNCHANGED <<backend, debug, deleteGauges, persistCountKeys, percentThreshold,
                   counters, countInactivity, gauges, timers, sets, packets, now, buffer,
                   num, client, todo, cur, pre, writes, hInc, hSmp, hMem, hSince, hGauge>>

\* client.Write is still blocked when the deadline set on the connection passes
G_WriteDeadline ==
    /\ pc = "g_write"
    /\ pc' = "returning"
    /\ err' = "write"
    /\ io' = io \cup {"write"}
    /\ UNCHANGED <<backend, debug, deleteGauges, persistCountKeys, percentThreshold,
                   counters, countInactivity, gauges, timers, sets, packets, now, buffer,
                   num, client, todo, cur, pre, writes, hInc, hSmp, hMem, hSince, hGauge>>

\* graphiteBackend.submit returns: the deferred client.Close(), the locals end
G_Return ==
    /\ backend = "graphite"
    /\ pc = "returning"
    /\ pc' = "idle"
    /\ now' = 0
    /\ buffer' = <<>>
    /\ num' = 0
    /\ client' = None
    /\ err' = None
    /\ todo' = {}
    /\ cur' = <<>>
    /\ io' = {}
    /\ pre' = <<>>
    /\ UNCHANGED <<backend, debug, deleteGauges, persistCountKeys, percentThreshold,
                   counters, countInactivity, gauges, timers, sets, packets, writes,
                   hInc, hSmp, hMem, hSince, hGauge>>

(* ------------------------ openFalconBackend.submit --------------------- *)

\* openFalconBackend.submit is called; processCounters starts
F_Submit(t) ==
    /\ backend = "openfalcon"
    /\ pc = "idle"
    /\ pc' = "f_counters"
    /\ now' = t
    /\ buffer' = <<>>
    /\ num' = 0
    /\ client' = None
    /\ err' = None
    /\ todo' = DOMAIN counters
    /\ cur' = <<>>
    /\ io' = {}
    /\ pre' = <<Snapshot>>
    /\ writes' = 0
    /\ UNCHANGED <<backend, debug, deleteGauges, persistCountKeys, percentThreshold,
                   counters, countInactivity, gauges, timers, sets, packets, hInc, hSmp,
                   hMem, hSince, hGauge>>

\* bd.processCounters, first loop: range yields (bucket, value), appendPacket
F_CountersRead(k) ==
    /\ pc = "f_counters"
    /\ cur = <<>>
    /\ k \in todo
    /\ packets' = appendPacket(packets, k, Rat(counters[k], 1), now)
    /\ cur' = <<[bucket |-> k, value |-> counters[k]]>>
    /\ hInc' = [hInc EXCEPT ![k] = <<>>]
    /\ UNCHANGED <<backend, debug, deleteGauges, persistCountKeys, percentThreshold,
                   counters, countInactivity, gauges, timers, sets, pc, now, buffer, num,
                   client, err, todo, io, pre, writes, hSmp, hMem, hSince, hGauge>>

\* bd.processCounters, first loop: delete, countInactivity[bucket] = 0
F_CountersDelete ==
    /\ pc = "f_counters"
    /\ cur # <<>>
    /\ counters' = Delete(counters, cur[1].bucket)
    /\ countInactivity' = Put(countInactivity, cur[1].bucket, 0)
    /\ todo' = todo \ {cur[1].bucket}
    /\ cur' = <<>>
    /\ hSince' = [hSince EXCEPT ![cur[1].bucket] = -1]
    /\ UNCHANGED <<backend, debug, deleteGauges, persistCountKeys, percentThreshold,
                   gauges, timers, sets, packets, pc, now, buffer, num, client, err, io,
                   pre, writes, hInc, hSmp, hMem, hGauge>>

\* bd.processCounters: the first loop ends, the second starts
F_CountersExit ==
    /\ pc = "f_counters"
    /\ cur = <<>>
    /\ todo = {}
    /\ pc' = "f_inactivity"
    /\ todo' = DOMAIN countInactivity
    /\ UNCHANGED <<backend, debug, deleteGauges, persistCountKeys, percentThreshold,
                   counters, countInactivity, gauges, timers, sets, packets, now, buffer,
                   num, client, err, cur, io, pre, writes, hInc, hSmp, hMem, hSince,
                   hGauge>>

\* bd.processCounters, second loop, one key: zero-fill, count, purge
F_Inactivity(k) ==
    /\ pc = "f_inactivity"
    /\ k \in todo
    /\ countInactivity' = bd_purge(countInactivity, k, persistCountKeys)
    /\ packets' = zeroPacket(packets, k, countInactivity[k], now)
    /\ todo' = todo \ {k}
    /\ UNCHANGED <<backend, debug, deleteGauges, persistCountKeys, percentThreshold,
                   counters, gauges, timers, sets, pc, now, buffer, num, client, err,
                   cur, io, pre, writes, hInc, hSmp, hMem, hSince, hGauge>>

\* bd.processCounters returns; bd.processGauges starts
F_InactivityExit ==
    /\ pc = "f_inactivity"
    /\ todo = {}
    /\ pc' = "f_gauges"
    /\ todo' = DOMAIN gauges
    /\ hSince' = SinceAfterFlush
    /\ UNCHANGED <<backend, debug, deleteGauges, persistCountKeys, percentThreshold,
                   counters, countInactivity, gauges, timers, sets, packets, now, buffer,
                   num, client, err, cur, io, pre, writes, hInc, hSmp, hMem, hGauge>>

\* bd.processGauges, one key: appendPacket, delete if *deleteGauges
F_Gauges(k) ==
    /\ pc = "f_gauges"
    /\ k \in todo
    /\ gauges' = bd_gaugesAfter(gauges, k, deleteGauges)
    /\ packets' = appendPacket(packets, k, Rat(gauges[k], 1), now)
    /\ todo' = todo \ {k}
    /\ UNCHANGED <<backend, debug, deleteGauges, persistCountKeys, percentThreshold,
                   counters, countInactivity, timers, sets, pc, now, buffer, num, client,
                   err, cur, io, pre, writes, hInc, hSmp, hMem, hSince, hGauge>>

\* bd.processGauges returns; bd.processTimers starts
F_GaugesExit ==
    /\ pc = "f_gauges"
    /\ todo = {}
    /\ pc' = "f_timers"
    /\ todo' = DOMAIN timers
    /\ hGauge' = GaugeAfterFlush
    /\ UNCHANGED <<backend, debug, deleteGauges, persistCountKeys, percentThreshold,
                   counters, countInactivity, gauges, timers, sets, packets, now, buffer,
                   num, client, err, cur, io, pre, writes, hInc, hSmp, hMem, hSince>>

\* bd.processTimers: range yields (bucket, timer)
F_TimersRead(k) ==
    /\ pc = "f_timers"
    /\ cur = <<>>
    /\ k \in todo
    /\ cur' = <<[bucket |-> k, value |-> timers[k]]>>
    /\ hSmp' = [hSmp EXCEPT ![k] = <<>>]
    /\ UNCHANGED <<backend, debug, deleteGauges, persistCountKeys, percentThreshold,
                   counters, countInactivity, gauges, timers, sets, packets, pc, now,
                   buffer, num, client, err, todo, io, pre, writes, hInc, hMem, hSince,
                   hGauge>>

\* bd.processTimers, loop body: sort, summarise, appendPacket, delete
F_TimersEmit ==
    /\ pc = "f_timers"
    /\ cur # <<>>
    /\ ~timerPanics(cur[1].value, percentThreshold)
    /\ timers' = Delete(timers, cur[1].bucket)
    /\ packets' = timerPackets(packets, cur[1].bucket, cur[1].value, percentThreshold, now)
    /\ todo' = todo \ {cur[1].bucket}
    /\ cur' = <<>>
    /\ UNCHANGED <<backend, debug, deleteGauges, persistCountKeys, percentThreshold,
                   counters, countInactivity, gauges, sets, pc, now, buffer, num, client,
                   err, io, pre, writes, hInc, hSmp, hMem, hSince, hGauge>>

\* bd.processTimers, loop body: timer[indexOfPerc] with the index outside the
\* samples is a run-time panic: the deferred bd.packets = nil runs and the
\* process ends
F_TimersPanic ==
    /\ pc = "f_timers"
    /\ cur # <<>>
    /\ timerPanics(cur[1].value, percentThreshold)
    /\ packets' = <<>>
    /\ pc' = "crashed"
    /\ now' = 0
    /\ buffer' = <<>>
    /\ num' = 0
    /\ client' = None
    /\ err' = None
    /\ todo' = {}
    /\ cur' = <<>>
    /\ io' = {}
    /\ pre' = <<>>
    /\ UNCHANGED <<backend, debug, deleteGauges, persistCountKeys, percentThreshold,
                   counters, countInactivity, gauges, timers, sets, writes, hInc, hSmp,
                   hMem, hSince, hGauge>>

\* bd.processTimers returns; bd.processSets starts
F_TimersExit ==
    /\ pc = "f_timers"
    /\ cur = <<>>
    /\ todo = {}
    /\ pc' = "f_sets"
    /\ todo' = DOMAIN sets
    /\ UNCHANGED <<backend, debug, deleteGauges, persistCountKeys, percentThreshold,
                   counters, countInactivity, gauges, timers, sets, packets, now, buffer,
                   num, client, err, cur, io, pre, writes, hInc, hSmp, hMem, hSince,
                   hGauge>>

\* bd.processSets: range yields (bucket, set)
F_SetsRead(k) ==
    /\ pc = "f_sets"
    /\ cur = <<>>
    /\ k \in todo
    /\ cur' = <<[bucket |-> k, value |-> sets[k]]>>
    /\ hMem' = [hMem EXCEPT ![k] = <<>>]
    /\ UNCHANGED <<backend, debug, deleteGauges, persistCountKeys, percentThreshold,
                   counters, countInactivity, gauges, timers, sets, packets, pc, now,
                   buffer, num, client, err, todo, io, pre, writes, hInc, hSmp, hSince,
                   hGauge>>

\* bd.processSets, loop body: uniqueSet, appendPacket, delete
F_SetsEmit ==
    /\ pc = "f_sets"
    /\ cur # <<>>
    /\ sets' = Delete(sets, cur[1].bucket)
    /\ packets' = appendPacket(packets, cur[1].bucket, Rat(uniqueCount(cur[1].value), 1), now)
    /\ todo' = todo \ {cur[1].bucket}
    /\ cur' = <<>>
    /\ UNCHANGED <<backend, debug, deleteGauges, persistCountKeys, percentThreshold,
                   counters, countInactivity, gauges, timers, pc, now, buffer, num,
                   client, err, io, pre, writes, hInc, hSmp, hMem, hSince, hGauge>>

\* bd.processSets returns: num = len(bd.packets); with num == 0 return nil
F_SetsExit ==
    /\ pc = "f_sets"
    /\ cur = <<>>
    /\ todo = {}
    /\ pc' = f_afterDrain(Len(packets))
    /\ num' = Len(packets)
    /\ err' = IF Len(packets) = 0 THEN "nil" ELSE None
    /\ UNCHANGED <<backend, debug, deleteGauges, persistCountKeys, percentThreshold,
                   counters, countInactivity, gauges, timers, sets, packets, now, buffer,
                   client, todo, cur, io, pre, writes, hInc, hSmp, hMem, hSince, hGauge>>

\* json.Marshal(bd.packets) succeeds; the request is built and client.Do called
F_MarshalOk ==
    /\ pc = "f_marshal"
    /\ pc' = "f_post"
    /\ UNCHANGED <<backend, debug, deleteGauges, persistCountKeys, percentThreshold,
                   counters, countInactivity, gauges, timers, sets, packets, now, buffer,
                   num, client, err, todo, cur, io, pre, writes, hInc, hSmp, hMem,
                   hSince, hGauge>>

\* json.Marshal(bd.packets) fails: return the error
F_MarshalFail ==
    /\ pc = "f_marshal"
    /\ pc' = "returning"
    /\ err' = "marshal"
    /\ UNCHANGED <<backend, debug, deleteGauges, persistCountKeys, percentThreshold,
                   counters, countInactivity, gauges, timers, sets, packets, now, buffer,
                   num, client, todo, cur, io, pre, writes, hInc, hSmp, hMem, hSince,
                   hGauge>>

\* client.Do returns a response: return nil
F_PostOk ==
    /\ pc = "f_post"
    /\ pc' = "returning"
    /\ err' = "nil"
    /\ io' = io \cup {"post"}
    /\ UNCHANGED <<backend, debug, deleteGauges, persistCountKeys, percentThreshold,
                   counters, countInactivity, gauges, timers, sets, packets, now, buffer,
                   num, client, todo, cur, pre, writes, hInc, hSmp, hMem, hSince, hGauge>>

\* client.Do returns an error
F_PostFail ==
    /\ pc = "f_post"
    /\ pc' = "returning"
    /\ err' = "post"
    /\ io' = io \cup {"post"}
    /\ UNCHANGED <<backend, debug, deleteGauges, persistCountKeys, percentThreshold,
                   counters, countInactivity, gauges, timers, sets, packets, now, buffer,
                   num, client, todo, cur, pre, writes, hInc, hSmp, hMem, hSince, hGauge>>

\* openFalconBackend.submit returns: the deferred bd.packets = nil, the locals end
F_Return ==
    /\ backend = "openfalcon"
    /\ pc = "returning"
    /\ packets' = packetsAfterReturn(packets)
    /\ pc' = "idle"
    /\ now' = 0
    /\ buffer' = <<>>
    /\ num' = 0
    /\ client' = None
    /\ err' = None
    /\ todo' = {}
    /\ cur' = <<>>
    /\ io' = {}
    /\ pre' = <<>>
    /\ UNCHANGED <<backend, debug, deleteGauges, persistCountKeys, percentThreshold,
                   counters, countInactivity, gauges, timers, sets, writes, hInc, hSmp,
                   hMem, hSince, hGauge>>

(* ------------------------------ the system ----------------------------- *)

Ingest ==
    \/ \E k \in CounterKeys, d \in CounterDeltas : IngestCounter(k, d)
    \/ \E k \in GaugeKeys, v \in GaugeValues : IngestGauge(k, v)
    \/ \E k \in GaugeKeys, d \in GaugeDeltas : IngestGaugeDelta(k, d)
    \/ \E k \in TimerKeys, v \in TimerSamples : IngestTimer(k, v)
    \/ \E k \in SetKeys, m \in SetMembers : IngestSet(k, m)

GraphiteSubmit ==
    \/ \E t \in Times : G_Submit(t)
    \/ G_DialOk
    \/ G_DialFail
    \/ G_SetDeadlineOk
    \/ G_SetDeadlineFail
    \/ \E k \in CounterKeys : G_CountersRead(k)
    \/ G_CountersDelete
    \/ G_CountersExit
    \/ \E k \in CounterKeys : G_Inactivity(k)
    \/ G_InactivityExit
    \/ \E k \in GaugeKeys : G_Gauges(k)
    \/ G_GaugesExit
    \/ \E k \in TimerKeys : G_TimersRead(k)
    \/ G_TimersEmit
    \/ G_TimersPanic
    \/ G_TimersExit
    \/ \E k \in SetKeys : G_SetsRead(k)
    \/ G_SetsEmit
    \/ G_SetsExit
    \/ G_WriteOk
    \/ G_WriteFail
    \/ G_WriteDeadline
    \/ G_Return

OpenFalconSubmit ==
    \/ \E t \in Times : F_Submit(t)
    \/ \E k \in CounterKeys : F_CountersRead(k)
    \/ F_CountersDelete
    \/ F_CountersExit
    \/ \E k \in CounterKeys : F_Inactivity(k)
    \/ F_InactivityExit
    \/ \E k \in GaugeKeys : F_Gauges(k)
    \/ F_GaugesExit
    \/ \E k \in TimerKeys : F_TimersRead(k)
    \/ F_TimersEmit
    \/ F_TimersPanic
    \/ F_TimersExit
    \/ \E k \in SetKeys : F_SetsRead(k)
    \/ F_SetsEmit
    \/ F_SetsExit
    \/ F_MarshalOk
    \/ F_MarshalFail
    \/ F_PostOk
    \/ F_PostFail
    \/ F_Return

Next == Ingest \/ GraphiteSubmit \/ OpenFalconSubmit

Spec == Init /\ [][Next]_vars

(* ------------------- one backend on a preloaded store ------------------ *)

\* the values of -percent-threshold tried on a preloaded store
PctConfigs ==
    { <<upper50, lower50>>, <<upper90, lower90, upper100, lower100>>,
      <<upper10>>, <<lower25>> }

SampleValues == 1..5

SeqsUpTo(S, n) == UNION { [1..m -> S] : m \in 1..n }

\* the daemon with one timer bucket or one set bucket filled by ingestion and
\* nothing else in the store
InitFlush ==
    /\ backend \in {"graphite", "openfalcon"}
    /\ debug = FALSE
    /\ deleteGauges = TRUE
    /\ persistCountKeys = 0
    /\ percentThreshold \in PctConfigs
    /\ counters = EmptyMap /\ countInactivity = EmptyMap /\ gauges = EmptyMap
    /\ \/ /\ \E k \in TimerKeys, s \in SeqsUpTo(SampleValues, MaxSamples) :
                /\ timers = [x \in {k} |-> s]
                /\ hSmp = [x \in TimerKeys |-> IF x = k THEN s ELSE <<>>]
          /\ sets = EmptyMap
          /\ hMem = [k \in SetKeys |-> <<>>]
       \/ /\ \E k \in SetKeys, s \in SeqsUpTo(SetMembers, MaxMembers) :
                /\ sets = [x \in {k} |-> s]
                /\ hMem = [x \in SetKeys |-> IF x = k THEN s ELSE <<>>]
          /\ timers = EmptyMap
          /\ hSmp = [k \in TimerKeys |-> <<>>]
    /\ hInc = [k \in CounterKeys |-> <<>>]
    /\ hSince = [k \in CounterKeys |-> Far]
    /\ hGauge = [k \in GaugeKeys |-> <<>>]
    /\ packets = <<>>
    /\ NoFrame
    /\ writes = 0

NextFlush ==
    \/ \E t \in Times : G_Submit(t)
    \/ G_DialOk
    \/ G_DialFail
    \/ G_SetDeadlineOk
    \/ G_SetDeadlineFail
    \/ G_CountersExit
    \/ G_InactivityExit
    \/ G_GaugesExit
    \/ \E k \in TimerKeys : G_TimersRead(k)
    \/ G_TimersEmit
    \/ G_TimersPanic
    \/ G_TimersExit
    \/ \E k \in SetKeys : G_SetsRead(k)
    \/ G_SetsEmit
    \/ G_SetsExit
    \/ G_WriteOk
    \/ G_WriteFail
    \/ G_WriteDeadline
    \/ G_Return
    \/ \E t \in Times : F_Submit(t)
    \/ F_CountersExit
    \/ F_InactivityExit
    \/ F_GaugesExit
    \/ \E k \in TimerKeys : F_TimersRead(k)
    \/ F_TimersEmit
    \/ F_TimersPanic
    \/ F_TimersExit
    \/ \E k \in SetKeys : F_SetsRead(k)
    \/ F_SetsEmit
    \/ F_SetsExit
    \/ F_MarshalOk
    \/ F_MarshalFail
    \/ F_PostOk
    \/ F_PostFail
    \/ F_Return

SpecFlush == InitFlush /\ [][NextFlush]_vars

(* ------------------------------ liveness ------------------------------- *)

\* the steps of a running call that do not wait for the network: they happen
\* as soon as the call gets there
LocalSteps ==
    \/ G_SetDeadlineOk \/ G_SetDeadlineFail
    \/ \E k \in CounterKeys : G_CountersRead(k)
    \/ G_CountersDelete \/ G_CountersExit
    \/ \E k \in CounterKeys : G_Inactivity(k)
    \/ G_InactivityExit
    \/ \E k \in GaugeKeys : G_Gauges(k)
    \/ G_GaugesExit
    \/ \E k \in TimerKeys : G_TimersRead(k)
    \/ G_TimersEmit \/ G_TimersPanic \/ G_TimersExit
    \/ \E k \in SetKeys : G_SetsRead(k)
    \/ G_SetsEmit \/ G_SetsExit \/ G_Return
    \/ \E k \in CounterKeys : F_CountersRead(k)
    \/ F_CountersDelete \/ F_CountersExit
    \/ \E k \in CounterKeys : F_Inactivity(k)
    \/ F_InactivityExit
    \/ \E k \in GaugeKeys : F_Gauges(k)
    \/ F_GaugesExit
    \/ \E k \in TimerKeys : F_TimersRead(k)
    \/ F_TimersEmit \/ F_TimersPanic \/ F_TimersExit
    \/ \E k \in SetKeys : F_SetsRead(k)
    \/ F_SetsEmit \/ F_SetsExit
    \/ F_MarshalOk \/ F_MarshalFail \/ F_Return

\* one configuration of each backend
InitFair ==
    /\ Init
    /\ debug = FALSE
    /\ deleteGauges = TRUE
    /\ persistCountKeys = 1

\* Local steps are taken; net.Dial returns (the operating system bounds a
\* connection attempt); a Write on a connection with a deadline returns when
\* the deadline passes.  Nothing makes the peer answer: G_WriteOk,
\* G_WriteFail, F_PostOk and F_PostFail are the peer's doing.
FairSpec ==
    /\ InitFair
    /\ [][Next]_vars
    /\ WF_vars(LocalSteps)
    /\ WF_vars(G_DialOk \/ G_DialFail)
    /\ WF_vars(G_WriteDeadline)


(* ---------------------- appendPacket on any name ----------------------- *)

\* longest record name tried
MaxNameLen == 3

\* most packets appended in a row
MaxPackets == 2

\* record names over a letter and the path separator
MetricNames == SeqsUpTo({"a", "/"}, MaxNameLen)

\* bd.appendPacket(metric, value, t) is called; cur keeps the arguments
AppendPacketCall(metric, value, t) ==
    /\ backend = "openfalcon"
    /\ Len(packets) < MaxPackets
    /\ packets' = appendPacket(packets, metric, Rat(value, 1), t)
    /\ cur' = <<[bucket |-> metric, value |-> value]>>
    /\ UNCHANGED <<config, store, pc, now, buffer, num, client, err, todo, io, pre,
                   writes, hist>>

\* an open-falcon backend that has appended nothing yet
InitParse ==
    /\ backend = "openfalcon"
    /\ debug = FALSE
    /\ deleteGauges = TRUE
    /\ persistCountKeys = 0
    /\ percentThreshold = <<upper50, lower50>>
    /\ EmptyStore
    /\ packets = <<>>
    /\ NoFrame
    /\ writes = 0
    /\ NoHistory

NextParse == \E metric \in MetricNames, t \in Times : AppendPacketCall(metric, 1, t)

SpecParse == InitParse /\ [][NextParse]_vars
(* -------------------------- what a call emitted ------------------------ *)

\* positions of the records the running call has produced: the lines of the
\* graphite buffer, the messages of bd.packets
Emitted == IF backend = "graphite" THEN DOMAIN buffer ELSE DOMAIN packets

\* record i carries metric name `name`
IsFor(i, name) ==
    IF backend = "graphite"
    THEN buffer[i].name = name
    ELSE /\ packets[i].Metric = parseMetric(name)[1]
         /\ packets[i].Tags = parseMetric(name)[2]

\* the number record i carries
ValueOf(i) == IF backend = "graphite" THEN buffer[i].value.dec ELSE packets[i].Value

RecordsFor(name) == { i \in Emitted : IsFor(i, name) }

\* exactly one record for name, and its value is v
OneRecord(name, v) ==
    /\ Cardinality(RecordsFor(name)) = 1
    /\ \A i \in RecordsFor(name) : ValueOf(i) = Rat(v, 1)

NoRecord(name) == RecordsFor(name) = {}

\* the call is at its return statement
Returning == pc = "returning"

\* the call ran the four process functions
RanDrain ==
    \/ backend = "openfalcon"
    \/ client = "conn" /\ err # "deadline"
    \/ client = None /\ debug

\* the call is at its return statement, after a drain
Drained == Returning /\ RanDrain

\* the store the call found had nothing in it
FoundEmpty ==
    /\ pre[1].counters = EmptyMap /\ pre[1].countInactivity = EmptyMap
    /\ pre[1].gauges = EmptyMap /\ pre[1].timers = EmptyMap /\ pre[1].sets = EmptyMap

(* -------------------------------- claims ------------------------------- *)

\* C1: a flush emits, for every counter key that received increments since the
\* previous flush, exactly one record whose value is the sum of those
\* increments, and the key is no longer in counters after the flush.
C1_CounterSum ==
    Drained =>
        \A k \in CounterKeys :
            pre[1].hInc[k] # <<>> =>
                /\ OneRecord(k, SumSeq(pre[1].hInc[k]))
                /\ k \notin DOMAIN counters

C1_Witness ==
    /\ Drained
    /\ \E k \in CounterKeys :
        /\ Len(pre[1].hInc[k]) >= 2
        /\ OneRecord(k, SumSeq(pre[1].hInc[k]))

\* C2: a counter key without data in a flush gets a zero record in that flush
\* exactly when its last live flush is fewer than persistCountKeys flushes
\* back, and no record otherwise; a live flush restarts the count (hSince = 0).
C2_ZeroFill ==
    Drained =>
        \A k \in CounterKeys :
            IF k \in DOMAIN pre[1].counters
            THEN hSince[k] = Min2(0, persistCountKeys)
            ELSE /\ IF pre[1].hSince[k] < persistCountKeys
                    THEN OneRecord(k, 0)
                    ELSE NoRecord(k)
                 /\ hSince[k] = Min2(pre[1].hSince[k] + 1, persistCountKeys)

C2_Witness ==
    /\ Drained
    /\ persistCountKeys = 2
    /\ \E k \in CounterKeys :
        /\ k \notin DOMAIN pre[1].counters
        /\ pre[1].hSince[k] = 1
        /\ OneRecord(k, 0)

\* C3 as claimed: submit on an empty store performs no I/O and returns success.
C3_Original == (Returning /\ FoundEmpty) => (io = {} /\ err = "nil")

\* C3 as amended: submit on an empty store sends nothing; the open-falcon
\* backend performs no I/O and returns nil; the graphite backend has dialed
\* (and set the deadline if the dial succeeded), and returns nil unless the
\* dial or SetDeadline failed.
C3_EmptyStore ==
    (Returning /\ FoundEmpty) =>
        /\ Emitted = {}
        /\ "write" \notin io /\ "post" \notin io
        /\ backend = "openfalcon" => (io = {} /\ err = "nil")
        /\ backend = "graphite" =>
            /\ "dial" \in io
            /\ err \in {"nil", "dial", "deadline"}
            /\ err = "dial" <=> client = None
            /\ err # "dial" => io = {"dial", "setdeadline"}

C3_Witness == Returning /\ FoundEmpty /\ backend = "graphite" /\ err = "nil"

\* C4 as claimed: after any submit call returns, counters, timers and sets are
\* empty, and gauges too when gauge deletion is on.
C4_Original ==
    Returning =>
        /\ counters = EmptyMap /\ timers = EmptyMap /\ sets = EmptyMap
        /\ deleteGauges => gauges = EmptyMap

\* C4 as amended: a call that ran the drain leaves counters, timers and sets
\* empty (gauges too with deletion on) whatever it returns; a call that did
\* not (graphite: dial failed with debug off, or SetDeadline failed) returns an
\* error and leaves the five maps as it found them.
C4_DrainOrUntouched ==
    Returning =>
        IF RanDrain
        THEN /\ counters = EmptyMap /\ timers = EmptyMap /\ sets = EmptyMap
             /\ deleteGauges => gauges = EmptyMap
        ELSE /\ backend = "graphite" /\ err \in {"dial", "deadline"}
             /\ counters = pre[1].counters
             /\ countInactivity = pre[1].countInactivity
             /\ gauges = pre[1].gauges
             /\ timers = pre[1].timers
             /\ sets = pre[1].sets

C4_Witness ==
    /\ Drained
    /\ err \in {"write", "post", "marshal"}
    /\ pre[1].counters # EmptyMap /\ pre[1].timers # EmptyMap

\* C5: with deletion off a gauge is emitted with its last written value by
\* every flush after the write and stays in gauges; with deletion on the first
\* flush after the write emits it and removes it, and later flushes emit
\* nothing for it until it is written again.
C5_Gauges ==
    Drained =>
        \A k \in GaugeKeys :
            IF pre[1].hGauge[k] = <<>>
            THEN NoRecord(k)
            ELSE IF ~deleteGauges
            THEN /\ OneRecord(k, pre[1].hGauge[k][1].val)
                 /\ k \in DOMAIN gauges /\ gauges[k] = pre[1].hGauge[k][1].val
            ELSE /\ IF pre[1].hGauge[k][1].since = 0
                    THEN OneRecord(k, pre[1].hGauge[k][1].val)
                    ELSE NoRecord(k)
                 /\ k \notin DOMAIN gauges

C5_Witness ==
    /\ Drained
    /\ ~deleteGauges
    /\ \E k \in GaugeKeys :
        /\ pre[1].hGauge[k] # <<>>
        /\ pre[1].hGauge[k][1].since = HistCap
        /\ OneRecord(k, pre[1].hGauge[k][1].val)

\* the name stem of a timer bucket
Stem(bucket) == SubSeq(bucket, 1, Len(bucket) - Len(postfix))

\* v is the element at 0-based position index of the ascending arrangement of s
IsAtSortedIndex(s, index, v) ==
    /\ \E j \in DOMAIN s : s[j] = v
    /\ Cardinality({ j \in DOMAIN s : s[j] < v }) <= index
    /\ Cardinality({ j \in DOMAIN s : s[j] <= v }) >= index + 1

\* the index the claim gives for a percentile spec and a sample count
ClaimedIndex(pct, count) ==
    LET abs == IF pct.float >= 0 THEN pct.float ELSE 100 + pct.float
        rounded == (abs * count + 50) \div 100
    IN  IF pct.float >= 0 THEN rounded - 1 ELSE rounded

\* every threshold record of the bucket the call found under key k is the
\* sorted sample at the claimed index
ThresholdsAtClaimedIndex(k) ==
    \A i \in DOMAIN percentThreshold :
        /\ Cardinality(RecordsFor(pctName(Stem(k), percentThreshold[i]))) = 1
        /\ \A r \in RecordsFor(pctName(Stem(k), percentThreshold[i])) :
            /\ ValueOf(r).d = 1
            /\ IsAtSortedIndex(pre[1].timers[k],
                               ClaimedIndex(percentThreshold[i], Len(pre[1].timers[k])),
                               ValueOf(r).n)

\* the call found the samples 1..5, in some order, under key k
FoundOneToFive(k) ==
    /\ k \in DOMAIN pre[1].timers
    /\ Len(pre[1].timers[k]) = 5
    /\ Range(pre[1].timers[k]) = 1..5
    /\ percentThreshold = <<upper50, lower50>>

\* C6 as claimed, the worked example: for samples [1,2,3,4,5] upper 50 gives
\* threshold 3 and lower 50 gives threshold 3.
C6_Original ==
    Drained =>
        \A k \in TimerKeys :
            FoundOneToFive(k) =>
                /\ OneRecord(pctName(Stem(k), upper50), 3)
                /\ OneRecord(pctName(Stem(k), lower50), 3)

\* C6 as amended: for a bucket with more than one sample every threshold is the
\* sorted sample at index floor(abs/100 * count + 0.5), less one for an upper
\* tail spec only; for samples [1,2,3,4,5] upper 50 gives index 2 and
\* threshold 3, lower 50 gives index 3 and threshold 4.
C6_Threshold ==
    Drained =>
        \A k \in TimerKeys :
            /\ (k \in DOMAIN pre[1].timers /\ Len(pre[1].timers[k]) > 1) =>
                    ThresholdsAtClaimedIndex(k)
            /\ FoundOneToFive(k) =>
                /\ ClaimedIndex(upper50, 5) = 2
                /\ OneRecord(pctName(Stem(k), upper50), 3)
                /\ ClaimedIndex(lower50, 5) = 3
                /\ OneRecord(pctName(Stem(k), lower50), 4)

C6_Witness ==
    /\ Drained
    /\ \E k \in TimerKeys :
        /\ FoundOneToFive(k)
        /\ pre[1].timers[k] = <<5, 4, 3, 2, 1>>
        /\ OneRecord(pctName(Stem(k), lower50), 4)

\* C7: a bucket with the one sample v flushes to mean = upper = lower = v,
\* count = 1 and threshold v for every configured spec, and the flush of a
\* one-sample bucket never indexes the samples (it cannot end in the
\* index-out-of-range panic).
C7_SingleSample ==
    /\ Drained =>
        \A k \in TimerKeys :
            (k \in DOMAIN pre[1].timers /\ Len(pre[1].timers[k]) = 1) =>
                /\ OneRecord(Stem(k) \o dotMean \o postfix, pre[1].timers[k][1])
                /\ OneRecord(Stem(k) \o dotUpper \o postfix, pre[1].timers[k][1])
                /\ OneRecord(Stem(k) \o dotLower \o postfix, pre[1].timers[k][1])
                /\ OneRecord(Stem(k) \o dotCount \o postfix, 1)
                /\ \A i \in DOMAIN percentThreshold :
                    OneRecord(pctName(Stem(k), percentThreshold[i]), pre[1].timers[k][1])
    /\ pc = "crashed" => \E k \in DOMAIN timers : Len(timers[k]) > 1

C7_Witness ==
    /\ Drained
    /\ percentThreshold = <<upper10>>
    /\ \E k \in TimerKeys :
        /\ k \in DOMAIN pre[1].timers
        /\ pre[1].timers[k] = <<4>>
        /\ OneRecord(pctName(Stem(k), upper10), 4)

\* C8: a flush emits for each set bucket one record whose value is the number
\* of distinct members ingested since the previous flush, and removes the
\* bucket; a key without new members gets no record.
C8_Sets ==
    Drained =>
        \A k \in SetKeys :
            IF pre[1].hMem[k] # <<>>
            THEN /\ OneRecord(k, Cardinality(Range(pre[1].hMem[k])))
                 /\ k \notin DOMAIN sets
            ELSE NoRecord(k)

C8_Witness ==
    /\ Drained
    /\ \E k \in SetKeys :
        /\ pre[1].hMem[k] = <<"m", "m", "n">>
        /\ OneRecord(k, 2)
        /\ k \notin DOMAIN sets

Ended == Returning \/ pc = "crashed"

\* C10: every submit call comes to an end, even when the backend accepts the
\* connection and then never answers.
C10_SubmitReturns == (pc \notin {"idle", "crashed"}) ~> Ended

\* the graphite backend alone: its call always comes to an end
GraphiteSubmitReturns == (backend = "graphite" /\ pc # "idle") ~> Ended

(* ----------------------- what a drain should yield --------------------- *)

\* the store of snapshot s, as the tuple of the five maps
StoreOf(s) == <<s.counters, s.countInactivity, s.gauges, s.timers, s.sets>>

\* the history of snapshot s
HistOf(s) == <<s.hInc, s.hSmp, s.hMem, s.hSince, s.hGauge>>

\* every bucket the call found in counters, gauges, timers and sets has its
\* record among those the call produced
FoundIsEmitted ==
    /\ \A k \in DOMAIN pre[1].counters : OneRecord(k, pre[1].counters[k])
    /\ \A k \in DOMAIN pre[1].gauges : OneRecord(k, pre[1].gauges[k])
    /\ \A k \in DOMAIN pre[1].timers :
        OneRecord(Stem(k) \o dotCount \o postfix, Len(pre[1].timers[k]))
    /\ \A k \in DOMAIN pre[1].sets :
        OneRecord(k, Cardinality(Range(pre[1].sets[k])))

\* a graphite call with debug off whose net.Dial failed is at its return
DialFailedNoDebug ==
    Returning /\ backend = "graphite" /\ ~debug /\ client = None

\* C11 as claimed: on graphite with debug off a submit whose dial fails
\* returns an error and leaves the five maps unchanged, and the next submit
\* that connects emits the accumulated records.
C11_Original ==
    /\ DialFailedNoDebug =>
        /\ err = "dial"
        /\ StoreOf(Snapshot) = StoreOf(pre[1])
    /\ (Returning /\ backend = "graphite" /\ ~debug /\ client = "conn") =>
        FoundIsEmitted

\* C11 as amended: on graphite with debug off a submit whose dial fails
\* returns an error after the dial alone, leaves the five maps unchanged and
\* every sample still owed to a flush; the next submit that connects and sets
\* its deadline emits the accumulated records (one that connects and fails to
\* set the deadline leaves the maps unchanged, too).
C11_FailedDialKeeps ==
    /\ DialFailedNoDebug =>
        /\ err = "dial"
        /\ io = {"dial"}
        /\ Emitted = {}
        /\ StoreOf(Snapshot) = StoreOf(pre[1])
        /\ HistOf(Snapshot) = HistOf(pre[1])
    /\ (Returning /\ backend = "graphite" /\ ~debug /\ client = "conn") =>
        IF err = "deadline"
        THEN StoreOf(Snapshot) = StoreOf(pre[1])
        ELSE FoundIsEmitted

C11_Witness ==
    /\ DialFailedNoDebug
    /\ \E k \in CounterKeys : k \in DOMAIN counters
    /\ \E k \in CounterKeys : k \in DOMAIN countInactivity /\ countInactivity[k] > 0

\* the bag of the elements of a sequence
BagOfSeq(q) == [r \in Range(q) |-> Cardinality({ i \in DOMAIN q : q[i] = r })]

\* a record as the batched backend carries it: metric name, tags, value, time
Rec(name, v, t) == <<parseMetric(name)[1], parseMetric(name)[2], v, t>>

\* the records the running call has produced, as a bag; a graphite line is
\* read with its name split the way the batched backend splits it
EmittedBag ==
    IF backend = "graphite"
    THEN BagOfSeq([i \in DOMAIN buffer |->
                    Rec(buffer[i].name, buffer[i].value.dec, buffer[i].ts)])
    ELSE BagOfSeq([i \in DOMAIN packets |->
                    <<packets[i].Metric, packets[i].Tags, packets[i].Value,
                      packets[i].Timestamp>>])

\* the records of the timer buckets in K of snapshot s
RECURSIVE TimerBag(_, _, _)
TimerBag(s, K, t) ==
    IF K = {} THEN EmptyBag
    ELSE LET k == CHOOSE x \in K : TRUE
             recs == timerRecords(k, s.timers[k], percentThreshold)
         IN  BagOfSeq([i \in DOMAIN recs |-> Rec(recs[i][1], recs[i][2], t)])
             (+) TimerBag(s, K \ {k}, t)

\* the records a drain of the store of snapshot s at time t owes
OwedBag(s, t) ==
    SetToBag({ Rec(k, Rat(s.counters[k], 1), t) : k \in DOMAIN s.counters })
    (+) SetToBag({ Rec(k, Rat(0, 1), t) :
                    k \in { x \in DOMAIN s.countInactivity \ DOMAIN s.counters :
                                s.countInactivity[x] > 0 } })
    (+) SetToBag({ Rec(k, Rat(s.gauges[k], 1), t) : k \in DOMAIN s.gauges })
    (+) TimerBag(s, DOMAIN s.timers, t)
    (+) SetToBag({ Rec(k, Rat(Cardinality(Range(s.sets[k])), 1), t) : k \in DOMAIN s.sets })

\* the inactivity count of key k of snapshot s once the counter flush is over;
\* 0 stands for a purged key
CountAfter(s, k) ==
    LET c == IF k \in DOMAIN s.counters THEN 1 ELSE s.countInactivity[k] + 1
    IN  IF c > persistCountKeys THEN 0 ELSE c

\* the five maps a drain of the store of snapshot s leaves
StoreAfterDrain(s) ==
    LET keys == { k \in DOMAIN s.counters \cup DOMAIN s.countInactivity :
                    CountAfter(s, k) > 0 }
    IN  << EmptyMap,
           [k \in keys |-> CountAfter(s, k)],
           IF deleteGauges THEN EmptyMap ELSE s.gauges,
           EmptyMap,
           EmptyMap >>

\* a graphite call in debug mode whose net.Dial failed is at its return
DialFailedDebug ==
    Returning /\ backend = "graphite" /\ debug /\ client = None

\* C12: on graphite with debug on a submit whose dial fails has drained the
\* store as a successful cycle does (counters, timers and sets emptied, gauges
\* too with deletion on, inactivity counts advanced and purged), has produced
\* the records of that drain into its local buffer only, has done no I/O
\* besides the dial, and returns the dial error.
C12_DebugDrain ==
    DialFailedDebug =>
        /\ err = "dial"
        /\ io = {"dial"}
        /\ StoreOf(Snapshot) = StoreAfterDrain(pre[1])
        /\ EmittedBag = OwedBag(pre[1], now)

C12_Witness ==
    /\ DialFailedDebug
    /\ pre[1].counters # EmptyMap
    /\ \E k \in CounterKeys :
        /\ k \in DOMAIN pre[1].countInactivity
        /\ k \notin DOMAIN countInactivity

\* the magnitude of a percentile spec lies in (0, 100]
ValidMagnitude(pct) == Abs(pct.float) \in 1..100

\* C13: with every configured spec of a magnitude in (0, 100], a flush that
\* holds a timer bucket of two or more samples computes, for every spec, an
\* index within [0, count-1], and no flush ends in the index-out-of-range
\* panic.
C13_IndexInRange ==
    (\A i \in DOMAIN percentThreshold : ValidMagnitude(percentThreshold[i])) =>
        /\ pc # "crashed"
        /\ (pc \in {"g_timers", "f_timers"} /\ cur # <<>> /\ Len(cur[1].value) >= 2) =>
            \A i \in DOMAIN percentThreshold :
                InRange(indexOfPerc(percentThreshold[i], Len(cur[1].value)),
                        Len(cur[1].value))

\* the values of the records the call produced under `name`
ValuesFor(name) == { ValueOf(i) : i \in RecordsFor(name) }

\* the records of timer bucket k as the call found it: one per configured
\* spec, each between the smallest and the largest sample, and mean, upper,
\* lower and count
TimerRecordsOf(k) ==
    LET smp == pre[1].timers[k]
        lo == CHOOSE x \in Range(smp) : \A y \in Range(smp) : x <= y
        hi == CHOOSE x \in Range(smp) : \A y \in Range(smp) : y <= x
    IN  /\ \A i \in DOMAIN percentThreshold :
            /\ Cardinality(RecordsFor(pctName(Stem(k), percentThreshold[i]))) = 1
            /\ \A v \in ValuesFor(pctName(Stem(k), percentThreshold[i])) :
                v.d = 1 /\ lo <= v.n /\ v.n <= hi
        /\ OneRecord(Stem(k) \o dotUpper \o postfix, hi)
        /\ OneRecord(Stem(k) \o dotLower \o postfix, lo)
        /\ OneRecord(Stem(k) \o dotCount \o postfix, Len(smp))
        /\ Cardinality(RecordsFor(Stem(k) \o dotMean \o postfix)) = 1
        /\ \A v \in ValuesFor(Stem(k) \o dotMean \o postfix) :
            v.n * Len(smp) = SumSeq(smp) * v.d

\* C14: a flush emits, for every timer bucket it found, one record per
\* configured percentile spec, each between lower and upper, and the four
\* records mean, upper, lower and count (largest sample, smallest sample,
\* number of samples, sum over count) and nothing else; the bucket is gone
\* from timers afterwards.
C14_TimerRecords ==
    Drained =>
        /\ \A k \in DOMAIN pre[1].timers :
            /\ TimerRecordsOf(k)
            /\ k \notin DOMAIN timers
        /\ (pre[1].sets = EmptyMap /\ Cardinality(DOMAIN pre[1].timers) = 1) =>
            Cardinality(Emitted) = Len(percentThreshold) + 4

C14_Witness ==
    /\ Drained
    /\ Len(percentThreshold) = 4
    /\ \E k \in TimerKeys :
        /\ k \in DOMAIN pre[1].timers
        /\ pre[1].timers[k] = <<4, 1, 2>>
        /\ OneRecord(Stem(k) \o dotUpper \o postfix, 4)

\* C15: on the open-falcon backend bd.packets is empty whenever no submit call
\* runs, also after a call that returned a marshal or request error, and what
\* a call marshals and posts is exactly the records of its own drain.
C15_OwnRecordsOnly ==
    backend = "openfalcon" =>
        /\ pc = "idle" => packets = <<>>
        /\ (pc \in {"f_marshal", "f_post"} \/ Returning) =>
            EmittedBag = OwedBag(pre[1], now)

C15_Witness ==
    /\ backend = "openfalcon"
    /\ Returning
    /\ err \in {"marshal", "post"}
    /\ packets # <<>>
    /\ pre[1].countInactivity # EmptyMap

\* C16: at every point of a submit call each counter key has at most one
\* record among those produced so far, and a key the call found in counters
\* ends with the one record of its live value, no zero record beside it, also
\* when the key was in countInactivity with a positive count.
C16_OneRecordPerKey ==
    /\ pc \notin {"idle", "crashed"} =>
        \A k \in CounterKeys : Cardinality(RecordsFor(k)) <= 1
    /\ Drained =>
        \A k \in DOMAIN pre[1].counters : OneRecord(k, pre[1].counters[k])

C16_Witness ==
    /\ Drained
    /\ \E k \in DOMAIN pre[1].counters :
        /\ k \in DOMAIN pre[1].countInactivity
        /\ pre[1].countInactivity[k] > 0
        /\ OneRecord(k, pre[1].counters[k])

\* C17: between submit calls every key of countInactivity has a count from 1
\* to persistCountKeys (so the map is empty when persistCountKeys is 0), and a
\* counter flush leaves each key it retains with a count of one (the key was
\* flushed live) or with one more than the call found.
C17_InactivityRange ==
    /\ pc = "idle" =>
        \A k \in DOMAIN countInactivity :
            1 <= countInactivity[k] /\ countInactivity[k] <= persistCountKeys
    /\ Drained =>
        \A k \in DOMAIN countInactivity :
            IF k \in DOMAIN pre[1].counters
            THEN countInactivity[k] = 1
            ELSE /\ k \in DOMAIN pre[1].countInactivity
                 /\ countInactivity[k] = pre[1].countInactivity[k] + 1

C17_Witness ==
    /\ Drained
    /\ persistCountKeys = 2
    /\ \E k, j \in DOMAIN countInactivity :
        /\ k \in DOMAIN pre[1].counters /\ countInactivity[k] = 1
        /\ j \notin DOMAIN pre[1].counters /\ countInactivity[j] = 2

\* C18: a drain by either backend, of the same store under the same
\* configuration at the same time, produces the same bag of records and
\* leaves the same five maps: both are the function OwedBag and
\* StoreAfterDrain of what the call found, whichever backend ran it.
C18_SameFlush ==
    Drained =>
        /\ EmittedBag = OwedBag(pre[1], now)
        /\ StoreOf(Snapshot) = StoreAfterDrain(pre[1])

C18_Witness ==
    /\ Drained
    /\ backend = "openfalcon"
    /\ pre[1].counters # EmptyMap
    /\ pre[1].timers # EmptyMap
    /\ \E k \in DOMAIN pre[1].countInactivity : k \notin DOMAIN pre[1].counters
    /\ BagCardinality(EmittedBag) >= 7

\* the arguments and the result of the last appendPacket call
LastPacket == packets[Len(packets)]

\* C19: appendPacket splits the record name at its last '/': the metric name
\* is what precedes it and the tags what follows it, so that the two joined
\* by '/' give the name back and the tags hold no '/'; a name without '/' is
\* the metric name whole, with empty tags.
C19_SplitAtLastSlash ==
    (cur # <<>> /\ packets # <<>>) =>
        IF "/" \in Range(cur[1].bucket)
        THEN /\ LastPacket.Metric \o <<"/">> \o LastPacket.Tags = cur[1].bucket
             /\ "/" \notin Range(LastPacket.Tags)
        ELSE /\ LastPacket.Metric = cur[1].bucket
             /\ LastPacket.Tags = <<>>

C19_Witness ==
    /\ cur # <<>> /\ packets # <<>>
    /\ cur[1].bucket = <<"/", "a", "/">>
    /\ LastPacket.Metric = <<"/", "a">>
    /\ LastPacket.Tags = <<>>
====
